---- MODULE Spec2Model ----
(***************************************************************************)
(* Model of app/handler.py: the GitHub pull-request webhook that moves an  *)
(* Asana task between board sections.                                      *)
(*                                                                         *)
(* One invocation of handler() is a process that walks through             *)
(*   handler -> get_and_update_task -> add_github_link -> confirm_project  *)
(*           -> add_section/do_add_section -> mark_completed               *)
(* with one step per outbound HTTP call, so that the order of the calls    *)
(* and their interleaving with another invocation are visible.  The Asana  *)
(* service holds one task; its answer to a call is a status code chosen    *)
(* nondeterministically, and a write takes effect only on a 2xx status.    *)
(*                                                                         *)
(* Text is a sequence of tokens.  In a PR body the tokens are the URL      *)
(* prefix up to "/0/", single digits, "/" and other text; in the           *)
(* X-Hub-Signature header they are the algorithm label, "=" and a hex      *)
(* digest.  An HMAC digest is the symbolic term (key, message): two        *)
(* digests are equal exactly when key and message are.                     *)
(***************************************************************************)
EXTENDS Integers, Sequences, FiniteSets, TLC

(* ------------------------------ bounds -------------------------------- *)

\* Number of webhook deliveries in a behaviour.
MaxInvocations == 2

(* --------------------------- configuration ---------------------------- *)

not_started_id == "not_started"
in_dev_id      == "in_dev"
in_pr_id       == "in_pr"
merged_done_id == "merged_done"
\* A section of the board that the configuration does not name.
other_section_id == "backlog"

hook_secret_key == "secret"
wrong_key       == "not-the-secret"

HTTP_OK == 200

Procs == {1, 2}

Actions == {"opened", "edited", "closed", "labeled"}
HtmlUrls == {"pr1", "pr2"}

(* ------------------------------ PR body -------------------------------- *)

HTTPS == "https://app.asana.com/0/"
HTTP  == "http://app.asana.com/0/"
\* "." in the pattern is not escaped: it matches any character.
HTTPS_DOT == "https://appXasana.com/0/"
FTP   == "ftp://app.asana.com/0/"

Digits == {"1", "2"}

TaskGid == <<"1">>
Project1 == <<"1">>
Project2 == <<"2">>

\* Bodies that name the task on one of its two boards.
CoreBodies ==
    { <<"x", HTTPS, "1", "/", "1", "x">>,
      <<HTTP, "2", "/", "1">> }

\* Bodies at the edges of the pattern: no URL, two URLs, empty ids, a failed
\* attempt before the match, another scheme, another character for the dot,
\* a task Asana does not know.
EdgeBodies ==
    { <<"x">>,
      <<HTTPS, "1", "/", "1", "x", HTTPS, "2", "/", "2">>,
      <<HTTPS, "/">>,
      <<HTTPS, "1", "x", HTTPS, "2", "/", "1">>,
      <<FTP, "1", "/", "1">>,
      <<HTTPS_DOT, "1", "/", "1">>,
      <<HTTPS, "1", "/", "2">> }

PRBodies == CoreBodies \cup EdgeBodies

\* r"(https?:\/\/app.asana.com\/0\/": the tokens the head of the pattern matches.
PrefixMatches(tok) == tok \in {HTTPS, HTTP, HTTPS_DOT}

\* [0-9]* from position i: the position after the longest run of digits.
RECURSIVE DigitRunEnd(_, _)
DigitRunEnd(text, i) ==
    IF i <= Len(text) /\ text[i] \in Digits
    THEN DigitRunEnd(text, i + 1)
    ELSE i

\* The pattern matched at position i (a match is <<project_id, task_id>>).
MatchAt(text, i) ==
    IF ~PrefixMatches(text[i]) THEN <<>>
    ELSE LET j == DigitRunEnd(text, i + 1)
         IN  IF j > Len(text) \/ text[j] # "/" THEN <<>>
             ELSE LET k == DigitRunEnd(text, j + 1)
                  IN  << [project_id |-> SubSeq(text, i + 1, j - 1),
                          task_id    |-> SubSeq(text, j + 1, k - 1)] >>

\* regex.search: the leftmost position where the pattern matches.
RECURSIVE Search(_, _)
Search(text, i) ==
    IF i > Len(text) THEN <<>>
    ELSE IF MatchAt(text, i) # <<>> THEN MatchAt(text, i)
    ELSE Search(text, i + 1)

\* As find_asana_ids, with the two groups of the match taken for each other.
find_asana_ids_swapped(pr_object) ==
    LET m == Search(pr_object.body, 1)
    IN  IF m = <<>> THEN <<>>
        ELSE << [project_id |-> m[1].task_id, task_id |-> m[1].project_id] >>

\* find_asana_ids: <<ids>> or <<>> for None.
find_asana_ids(pr_object) == Search(pr_object.body, 1)

(* ------------------------------ requests ------------------------------- *)

\* The raw body: the serialised event <<action, merged, body, html_url>>.
RawBodies ==
    { <<a, m, b, u>> : a \in Actions, m \in BOOLEAN, b \in CoreBodies, u \in HtmlUrls }
    \cup { <<a, a = "closed", b, "pr1">> : a \in {"opened", "closed"}, b \in EdgeBodies }

\* json.loads(event['body'])
JsonLoads(raw) ==
    [action |-> raw[1],
     pull_request |-> [merged |-> raw[2], body |-> raw[3], html_url |-> raw[4]]]

NoMsg == <<"", FALSE, <<>>, "">>
Lit(s) == [kind |-> "lit", text |-> s, key |-> "", msg |-> NoMsg]
\* hmac.new(key, msg, sha1).hexdigest()
HexDigest(key, msg) == [kind |-> "mac", text |-> "", key |-> key, msg |-> msg]

\* A body other than the one that was signed.
Tamper(raw) == <<raw[1], ~raw[2], raw[3], raw[4]>>

\* The header GitHub computes for a body.
SignedHeader(raw) == << Lit("sha1"), Lit("="), HexDigest(hook_secret_key, raw) >>

\* Headers for a body: another label, another key, another body, no "=", two "=".
HeadersFor(raw) ==
    { << Lit(l), Lit("="), d >> :
        l \in {"sha1", "sha256"},
        d \in {HexDigest(hook_secret_key, raw), HexDigest(wrong_key, raw),
               HexDigest(hook_secret_key, Tamper(raw))} }
    \cup { << Lit("sha1") >>,
           << Lit("sha1"), Lit("="), HexDigest(hook_secret_key, raw),
              Lit("="), HexDigest(hook_secret_key, raw) >> }

\* The bodies that also arrive under the headers GitHub would not compute.
ForgedBodies ==
    { <<"closed", TRUE, <<"x", HTTPS, "1", "/", "1", "x">>, "pr1">>,
      <<"opened", FALSE, <<"x">>, "pr2">> }

\* The deliveries of the external trigger.
Requests ==
    { [headers |-> SignedHeader(raw), body |-> raw] : raw \in RawBodies }
    \cup UNION { { [headers |-> h, body |-> raw] : h \in HeadersFor(raw) } :
                 raw \in ForgedBodies }

(* ------------------------- validate_signature -------------------------- *)

\* str.split(sep): the parts of s between the occurrences of sep.
RECURSIVE Split(_, _)
Split(s, sep) ==
    LET hits == { i \in 1..Len(s) : s[i] = sep }
    IN  IF hits = {} THEN << s >>
        ELSE LET i == CHOOSE x \in hits : \A y \in hits : x <= y
             IN  << SubSeq(s, 1, i - 1) >> \o Split(SubSeq(s, i + 1, Len(s)), sep)

\* "sha_name, signature = ...split('=')" raises ValueError unless there are two parts.
SignatureUnpacks(e) == Len(Split(e.headers, Lit("="))) = 2

\* As validate_signature, without the test of the algorithm label.
validate_signature_any_label(e) ==
    LET parts     == Split(e.headers, Lit("="))
        signature == parts[2]
    IN  << HexDigest(hook_secret_key, e.body) >> = signature

\* validate_signature, for a header that unpacks.
validate_signature(e) ==
    LET parts     == Split(e.headers, Lit("="))
        sha_name  == parts[1]
        signature == parts[2]
    IN  IF sha_name # << Lit("sha1") >> THEN FALSE
        ELSE << HexDigest(hook_secret_key, e.body) >> = signature

(* ----------------------------- Asana task ------------------------------ *)

Field(gid, name, text) == [gid |-> gid, name |-> name, text_value |-> text]
Member(project, section) == [project |-> project, section |-> section]

\* The custom fields a task may have when the first webhook arrives
\* ("" is the empty text value).
InitialFields ==
    { <<>>,
      << Field("f1", "GitHub PR", "") >>,
      << Field("f0", "Notes", "pr1"), Field("f1", "GitHub PR", "pr1") >>,
      << Field("f1", "GitHub PR", "pr2"), Field("f2", "GitHub PR", "pr1") >> }

BoardSections ==
    {not_started_id, in_dev_id, in_pr_id, merged_done_id, other_section_id}

\* A task is in at most one section of a project.
InitialMemberships ==
    { <<>> }
    \cup { << Member(Project1, s) >> : s \in BoardSections }
    \cup { << Member(Project2, in_pr_id), Member(Project1, s) >> :
             s \in {merged_done_id, not_started_id} }

\* find(f, array): the first item that satisfies f, <<>> when there is none
\* (f is a function on the items of the array).
find(f, array) ==
    LET hits == { i \in 1..Len(array) : f[array[i]] }
    IN  IF hits = {} THEN <<>>
        ELSE << array[CHOOSE i \in hits : \A j \in hits : i <= j] >>

\* lambda field: field['name'] == 'GitHub PR', on the custom fields of a task.
IsGithubField(t) ==
    [field \in { t.custom_fields[i] : i \in 1..Len(t.custom_fields) } |->
        field.name = "GitHub PR"]

\* As NeedsLinkUpdate, without the comparison with the stored value.
NeedsLinkUpdate_always(t, url) ==
    find(IsGithubField(t), t.custom_fields) # <<>>

\* The condition under which add_github_link issues its PUT.
NeedsLinkUpdate(t, url) ==
    LET github_field == find(IsGithubField(t), t.custom_fields)
    IN  github_field # <<>> /\ github_field[1].text_value # url

\* As confirm_member, without the test of the section.
confirm_member_any_section(member, project_id) ==
    member.project = project_id

confirm_member(member, project_id) ==
    IF member.project = project_id
    THEN member.section \in {not_started_id, in_dev_id, in_pr_id}
    ELSE FALSE

confirm_project(t, project_id) ==
    \E i \in 1..Len(t.memberships) : confirm_member(t.memberships[i], project_id)

NoSection == ""

\* As add_section, without the call of mark_completed.
add_section_never_completes(action, pr) ==
    IF action \in {"opened", "edited"}
    THEN [section |-> in_pr_id, complete |-> FALSE]
    ELSE IF action = "closed" /\ pr.merged
    THEN [section |-> merged_done_id, complete |-> FALSE]
    ELSE [section |-> NoSection, complete |-> FALSE]

\* As add_section, with "edited" left out of the first branch.
add_section_opened_only(action, pr) ==
    IF action = "opened"
    THEN [section |-> in_pr_id, complete |-> FALSE]
    ELSE IF action = "closed" /\ pr.merged
    THEN [section |-> merged_done_id, complete |-> TRUE]
    ELSE [section |-> NoSection, complete |-> FALSE]

\* As add_section, without the test of pr['merged'].
add_section_closed_any(action, pr) ==
    IF action \in {"opened", "edited"}
    THEN [section |-> in_pr_id, complete |-> FALSE]
    ELSE IF action = "closed"
    THEN [section |-> merged_done_id, complete |-> TRUE]
    ELSE [section |-> NoSection, complete |-> FALSE]

\* add_section: the section to move to and whether mark_completed follows.
add_section(action, pr) ==
    IF action \in {"opened", "edited"}
    THEN [section |-> in_pr_id, complete |-> FALSE]
    ELSE IF action = "closed" /\ pr.merged
    THEN [section |-> merged_done_id, complete |-> TRUE]
    ELSE [section |-> NoSection, complete |-> FALSE]

\* r.status_code == 200 in get_and_update_task.
GetSucceeded(status) == status = HTTP_OK

(* ---------------------------- Asana service ---------------------------- *)

\* Statuses of GET /tasks/{task_id}.
GetStatuses(t, task_id) == IF task_id = t.gid THEN {HTTP_OK, 500} ELSE {404}
\* Statuses of a PUT or POST.
WriteStatuses == {HTTP_OK, 500}
\* Asana applies a write exactly when it answers with a success status.
Applied(status) == status \in 200..299

\* PUT /tasks/{gid} {custom_fields: {field_gid: url}}
ServerSetField(t, field_gid, url) ==
    [t EXCEPT !.custom_fields =
        [i \in 1..Len(t.custom_fields) |->
            IF t.custom_fields[i].gid = field_gid
            THEN [t.custom_fields[i] EXCEPT !.text_value = url]
            ELSE t.custom_fields[i]]]

\* POST /tasks/{gid}/addProject: relocates the task within the project, or adds it.
ServerAddProject(t, project, section) ==
    IF \E i \in 1..Len(t.memberships) : t.memberships[i].project = project
    THEN [t EXCEPT !.memberships =
            [i \in 1..Len(t.memberships) |->
                IF t.memberships[i].project = project
                THEN Member(project, section)
                ELSE t.memberships[i]]]
    ELSE [t EXCEPT !.memberships = Append(t.memberships, Member(project, section))]

\* PUT /tasks/{gid} completed=true
ServerComplete(t) == [t EXCEPT !.completed = TRUE]

(* -------------------------------- state -------------------------------- *)

VARIABLES
    task,        \* the task as stored in Asana
    pc,          \* pc[p]: where invocation p stands
    request,     \* request[p]: the event handler() was called with
    event,       \* event[p]: <<the decoded body>>, <<>> before json.loads
    asana_ids,   \* asana_ids[p]: <<ids>> found in the PR body, <<>> for None
    fetched,     \* fetched[p]: <<the task read by the GET>>
    calls,       \* calls[p]: the outbound calls of the invocation, in order
    result,      \* result[p]: how the invocation ended
    delivered,   \* number of invocations started
    linkRuns     \* the last two runs of add_github_link, oldest first

vars == << task, pc, request, event, asana_ids, fetched, calls, result,
           delivered, linkRuns >>

\* An outbound call: the task in its URL, its payload and the status it got.
Call(kind, task_id, payload, status) ==
    [kind |-> kind, task_id |-> task_id, project |-> payload.project,
     section |-> payload.section, field |-> payload.field, value |-> payload.value,
     status |-> status]

NoPayload == [project |-> <<>>, section |-> "", field |-> "", value |-> ""]

Running == [state |-> "running", error |-> "", detail |-> ""]
Returned == [state |-> "returned", error |-> "", detail |-> ""]
Raised(error, detail) == [state |-> "raised", error |-> error, detail |-> detail]

SignatureError == "Signature sha does not match"
MissingIdError == "Asana id not found in the PR at"
BadStatusError == "Received bad status code from asana"
PolicyError    == "Task is not on the project board in Not Started, in Dev, or in PR"

NoRequest == [headers |-> <<>>, body |-> NoMsg]

Init ==
    /\ task \in { [gid |-> TaskGid, custom_fields |-> f, memberships |-> m,
                   completed |-> FALSE] :
                  f \in InitialFields, m \in InitialMemberships }
    /\ pc = [p \in Procs |-> "idle"]
    /\ request = [p \in Procs |-> NoRequest]
    /\ event = [p \in Procs |-> <<>>]
    /\ asana_ids = [p \in Procs |-> <<>>]
    /\ fetched = [p \in Procs |-> <<>>]
    /\ calls = [p \in Procs |-> <<>>]
    /\ result = [p \in Procs |-> Running]
    /\ delivered = 0
    /\ linkRuns = <<>>

(* ------------------------------- handler ------------------------------- *)

\* handler() up to its call of get_and_update_task: what it has decoded and
\* found, and whether it goes on or raises.
HandlerOutcome(e) ==
    IF ~SignatureUnpacks(e)
    THEN [pc |-> "done", event |-> <<>>, asana_ids |-> <<>>,
          result |-> Raised("ValueError", "")]
    ELSE IF ~validate_signature(e)
    THEN [pc |-> "done", event |-> <<>>, asana_ids |-> <<>>,
          result |-> Raised(SignatureError, "")]
    ELSE LET ev  == JsonLoads(e.body)
             ids == find_asana_ids(ev.pull_request)
         IN  IF ids # <<>>
             THEN [pc |-> "get", event |-> <<ev>>, asana_ids |-> ids,
                   result |-> Running]
             ELSE [pc |-> "done", event |-> <<ev>>, asana_ids |-> ids,
                   result |-> Raised(MissingIdError, ev.pull_request.html_url)]

\* The external trigger calls handler(e) in process p.
Invoke(p, e) ==
    /\ delivered < MaxInvocations
    /\ delivered' = delivered + 1
    /\ request' = [request EXCEPT ![p] = e]
    /\ LET o == HandlerOutcome(e)
       IN  /\ pc' = [pc EXCEPT ![p] = o.pc]
           /\ event' = [event EXCEPT ![p] = o.event]
           /\ asana_ids' = [asana_ids EXCEPT ![p] = o.asana_ids]
           /\ result' = [result EXCEPT ![p] = o.result]
    /\ fetched' = [fetched EXCEPT ![p] = <<>>]
    /\ calls' = [calls EXCEPT ![p] = <<>>]
    /\ UNCHANGED << task, linkRuns >>

\* One request processed start to finish before the next one arrives.
Handler(p) ==
    /\ \A q \in Procs : pc[q] \in {"idle", "done"}
    /\ \E e \in Requests : Invoke(p, e)

\* get_and_update_task: the GET and the test of its status.
GetTask(p) ==
    /\ pc[p] = "get"
    /\ LET task_id == asana_ids[p][1].task_id
       IN  \E status \in GetStatuses(task, task_id) :
             /\ calls' = [calls EXCEPT ![p] =
                            Append(@, Call("GET", task_id, NoPayload, status))]
             /\ IF GetSucceeded(status)
                THEN /\ fetched' = [fetched EXCEPT ![p] = << task >>]
                     /\ pc' = [pc EXCEPT ![p] = "link"]
                     /\ UNCHANGED result
                ELSE /\ pc' = [pc EXCEPT ![p] = "done"]
                     /\ result' = [result EXCEPT ![p] = Raised(BadStatusError, "")]
                     /\ UNCHANGED fetched
    /\ UNCHANGED << task, request, event, asana_ids, delivered, linkRuns >>

LastTwo(s) == IF Len(s) > 2 THEN SubSeq(s, Len(s) - 1, Len(s)) ELSE s

\* add_github_link(task, pr['html_url'])
AddGithubLink(p) ==
    /\ pc[p] = "link"
    /\ LET t   == fetched[p][1]
           url == event[p][1].pull_request.html_url
       IN  IF NeedsLinkUpdate(t, url)
           THEN \E status \in WriteStatuses :
                  LET gid == find(IsGithubField(t), t.custom_fields)[1].gid
                  IN  /\ calls' = [calls EXCEPT ![p] =
                                     Append(@, Call("PUT_LINK", t.gid,
                                        [NoPayload EXCEPT !.field = gid, !.value = url],
                                        status))]
                      /\ task' = IF Applied(status)
                                 THEN ServerSetField(task, gid, url)
                                 ELSE task
                      /\ linkRuns' = LastTwo(Append(linkRuns,
                                        [url |-> url, put |-> TRUE, status |-> status]))
           ELSE /\ linkRuns' = LastTwo(Append(linkRuns,
                                        [url |-> url, put |-> FALSE, status |-> 0]))
                /\ UNCHANGED << task, calls >>
    /\ pc' = [pc EXCEPT ![p] = "confirm"]
    /\ UNCHANGED << request, event, asana_ids, fetched, result, delivered >>

\* confirm_project(task, project_id)
ConfirmProject(p) ==
    /\ pc[p] = "confirm"
    /\ IF confirm_project(fetched[p][1], asana_ids[p][1].project_id)
       THEN /\ pc' = [pc EXCEPT ![p] = "section"]
            /\ UNCHANGED result
       ELSE /\ pc' = [pc EXCEPT ![p] = "done"]
            /\ result' = [result EXCEPT ![p] = Raised(PolicyError, "")]
    /\ UNCHANGED << task, request, event, asana_ids, fetched, calls, delivered,
                    linkRuns >>

\* As AddSection, with the status of the POST checked: a failure status raises.
AddSectionChecked(p) ==
    /\ pc[p] = "section"
    /\ LET ev         == event[p][1]
           project_id == asana_ids[p][1].project_id
           move       == add_section(ev.action, ev.pull_request)
       IN  IF move.section = NoSection
           THEN /\ pc' = [pc EXCEPT ![p] = "done"]
                /\ result' = [result EXCEPT ![p] = Returned]
                /\ UNCHANGED << task, calls >>
           ELSE \E status \in WriteStatuses :
                  /\ calls' = [calls EXCEPT ![p] =
                                 Append(@, Call("POST_ADD", fetched[p][1].gid,
                                    [NoPayload EXCEPT !.project = project_id,
                                                      !.section = move.section],
                                    status))]
                  /\ task' = IF Applied(status)
                             THEN ServerAddProject(task, project_id, move.section)
                             ELSE task
                  /\ IF ~Applied(status)
                     THEN /\ pc' = [pc EXCEPT ![p] = "done"]
                          /\ result' = [result EXCEPT ![p] =
                                          Raised("Updating project failed", "")]
                     ELSE IF move.complete
                     THEN /\ pc' = [pc EXCEPT ![p] = "complete"]
                          /\ UNCHANGED result
                     ELSE /\ pc' = [pc EXCEPT ![p] = "done"]
                          /\ result' = [result EXCEPT ![p] = Returned]
    /\ UNCHANGED << request, event, asana_ids, fetched, delivered, linkRuns >>

\* update_project -> add_section -> do_add_section
AddSection(p) ==
    /\ pc[p] = "section"
    /\ LET ev         == event[p][1]
           project_id == asana_ids[p][1].project_id
           move       == add_section(ev.action, ev.pull_request)
       IN  IF move.section = NoSection
           THEN /\ pc' = [pc EXCEPT ![p] = "done"]
                /\ result' = [result EXCEPT ![p] = Returned]
                /\ UNCHANGED << task, calls >>
           ELSE \E status \in WriteStatuses :
                  /\ calls' = [calls EXCEPT ![p] =
                                 Append(@, Call("POST_ADD", fetched[p][1].gid,
                                    [NoPayload EXCEPT !.project = project_id,
                                                      !.section = move.section],
                                    status))]
                  /\ task' = IF Applied(status)
                             THEN ServerAddProject(task, project_id, move.section)
                             ELSE task
                  /\ IF move.complete
                     THEN /\ pc' = [pc EXCEPT ![p] = "complete"]
                          /\ UNCHANGED result
                     ELSE /\ pc' = [pc EXCEPT ![p] = "done"]
                          /\ result' = [result EXCEPT ![p] = Returned]
    /\ UNCHANGED << request, event, asana_ids, fetched, delivered, linkRuns >>

\* mark_completed(task_id)
MarkCompleted(p) ==
    /\ pc[p] = "complete"
    /\ \E status \in WriteStatuses :
         /\ calls' = [calls EXCEPT ![p] =
                        Append(@, Call("PUT_DONE", fetched[p][1].gid,
                                       [NoPayload EXCEPT !.value = "true"], status))]
         /\ task' = IF Applied(status) THEN ServerComplete(task) ELSE task
    /\ pc' = [pc EXCEPT ![p] = "done"]
    /\ result' = [result EXCEPT ![p] = Returned]
    /\ UNCHANGED << request, event, asana_ids, fetched, delivered, linkRuns >>

Next ==
    \E p \in {1} :
        \/ Handler(p)
        \/ GetTask(p)
        \/ AddGithubLink(p)
        \/ ConfirmProject(p)
        \/ AddSection(p)
        \/ MarkCompleted(p)

Spec == Init /\ [][Next]_vars

(* ------------------------ overlapping deliveries ------------------------ *)

\* The events of one pull request that names the task: opened, edited, and
\* closed after the merge.
OverlapRequests ==
    { [headers |-> SignedHeader(raw), body |-> raw] :
        raw \in { <<a, a = "closed", <<"x", HTTPS, "1", "/", "1", "x">>, "pr1">> :
                    a \in {"opened", "edited", "closed"} } }

\* The external trigger calls handler(e) while another invocation may be running.
HandlerOverlapping(p) ==
    /\ pc[p] \in {"idle", "done"}
    /\ \E e \in OverlapRequests : Invoke(p, e)

NextOverlap ==
    \E p \in Procs :
        \/ HandlerOverlapping(p)
        \/ GetTask(p)
        \/ AddGithubLink(p)
        \/ ConfirmProject(p)
        \/ AddSection(p)
        \/ MarkCompleted(p)

SpecOverlap == Init /\ [][NextOverlap]_vars

(* ------------------------------------------------------------------------ *)
(*                              Properties                                  *)
(* ------------------------------------------------------------------------ *)

Invoked(p) == request[p] # NoRequest
Done(p) == pc[p] = "done"

RawAction(p) == request[p].body[1]
RawMerged(p) == request[p].body[2]
RawText(p)   == request[p].body[3]
RawUrl(p)    == request[p].body[4]

CallIdx(p) == 1..Len(calls[p])
Kinds(p) == [i \in CallIdx(p) |-> calls[p][i].kind]
Count(p, kind) == Cardinality({ i \in CallIdx(p) : calls[p][i].kind = kind })
WriteKinds == {"PUT_LINK", "POST_ADD", "PUT_DONE"}
WritesOf(p) == { i \in CallIdx(p) : calls[p][i].kind \in WriteKinds }

\* The header is "sha1=<digest>" with the digest of this body under the secret.
ValidSignature(p) ==
    request[p].headers =
        << Lit("sha1"), Lit("="), HexDigest(hook_secret_key, request[p].body) >>

\* The digit strings an id of the bodies can be.
DigitSeqs == { <<>> } \cup [1..1 -> Digits] \cup [1..2 -> Digits]

\* An Asana URL with these ids stands in the text at position i: the prefix,
\* the project id, "/", the task id, and no further digit.
UrlAt(text, i, proj, tid) ==
    LET j == i + Len(proj) + 1
        k == j + Len(tid) + 1
    IN  /\ text[i] \in {HTTPS, HTTP, HTTPS_DOT}
        /\ j <= Len(text)
        /\ SubSeq(text, i + 1, j - 1) = proj
        /\ text[j] = "/"
        /\ k - 1 <= Len(text)
        /\ SubSeq(text, j + 1, k - 1) = tid
        /\ (k <= Len(text) => text[k] \notin Digits)

UrlStarts(text) ==
    { i \in 1..Len(text) : \E proj \in DigitSeqs, tid \in DigitSeqs : UrlAt(text, i, proj, tid) }

HasAsanaUrl(text) == UrlStarts(text) # {}

\* The ids of the first Asana URL of a text that has one.
FirstUrlIds(text) ==
    LET i == CHOOSE x \in UrlStarts(text) : \A y \in UrlStarts(text) : x <= y
    IN  CHOOSE ids \in [project_id : DigitSeqs, task_id : DigitSeqs] :
            UrlAt(text, i, ids.project_id, ids.task_id)

\* The GET of the invocation was answered with 200.
Fetched200(p) == calls[p] # <<>> /\ calls[p][1].kind = "GET" /\ calls[p][1].status = 200

\* The task has a membership in the project in one of the three open sections.
OnBoard(t, project) ==
    \E i \in 1..Len(t.memberships) :
        /\ t.memberships[i].project = project
        /\ t.memberships[i].section \in {"not_started", "in_dev", "in_pr"}

\* The fetched task passes the board check for the project of the PR body.
PassesBoardCheck(p) ==
    /\ Fetched200(p)
    /\ fetched[p] # <<>>
    /\ OnBoard(fetched[p][1], FirstUrlIds(RawText(p)).project_id)

IsPolicyError(p) == result[p].state = "raised" /\ result[p].error = PolicyError

\* C1: no write call (GitHub-link PUT, addProject POST, completed PUT) is issued
\* unless the fetched task is on the board of the PR body's project in Not
\* Started, In Dev or In PR; an invocation that fails the board check ends with
\* the policy error having issued only the GET.
C1_NoWriteBeforeBoardCheck ==
    \A p \in Procs :
        /\ WritesOf(p) # {} => PassesBoardCheck(p)
        /\ IsPolicyError(p) => Kinds(p) = << "GET" >>

\* C2: a validly signed closed+merged event whose body has an Asana URL, whose
\* GET returned 200 and whose task passes the board check issues GET, at most one
\* GitHub-link PUT, one addProject POST to Merged/Done, then one completed=true
\* PUT, in this order, and returns without error; the completed PUT never
\* precedes the POST.
C2_MergedClosedSequence ==
    \A p \in Procs :
        /\ \A i \in CallIdx(p) :
              calls[p][i].kind = "PUT_DONE" =>
                 \E j \in 1..(i - 1) : calls[p][j].kind = "POST_ADD"
        /\ ( /\ Invoked(p) /\ Done(p) /\ ValidSignature(p)
             /\ RawAction(p) = "closed" /\ RawMerged(p)
             /\ HasAsanaUrl(RawText(p))
             /\ PassesBoardCheck(p) )
           => /\ result[p] = Returned
              /\ Kinds(p) \in { << "GET", "POST_ADD", "PUT_DONE" >>,
                                << "GET", "PUT_LINK", "POST_ADD", "PUT_DONE" >> }
              /\ \A i \in CallIdx(p) :
                    calls[p][i].kind = "POST_ADD" =>
                        calls[p][i].section = "merged_done"
              /\ calls[p][Len(calls[p])].value = "true"

C2_Witness ==
    /\ Done(1) /\ ValidSignature(1) /\ RawAction(1) = "closed" /\ RawMerged(1)
    /\ PassesBoardCheck(1)
    /\ Kinds(1) = << "GET", "PUT_LINK", "POST_ADD", "PUT_DONE" >>
    /\ result[1] = Returned

\* C3: for action opened or edited, whatever merged is, an invocation that passes
\* the board check issues exactly one addProject POST, to the In PR section of
\* the project named in the PR body, and no completed=true PUT.
C3_OpenedEditedMovesToInPR ==
    \A p \in Procs :
        ( /\ Invoked(p) /\ Done(p)
          /\ RawAction(p) \in {"opened", "edited"}
          /\ ValidSignature(p) /\ HasAsanaUrl(RawText(p))
          /\ PassesBoardCheck(p) )
        => /\ Count(p, "POST_ADD") = 1
           /\ Count(p, "PUT_DONE") = 0
           /\ \A i \in CallIdx(p) :
                 calls[p][i].kind = "POST_ADD" =>
                    /\ calls[p][i].section = "in_pr"
                    /\ calls[p][i].project = FirstUrlIds(RawText(p)).project_id

C3_Witness ==
    /\ Done(1) /\ RawAction(1) = "edited" /\ RawMerged(1)
    /\ PassesBoardCheck(1)
    /\ Count(1, "POST_ADD") = 1
    /\ calls[1][Len(calls[1])].section = "in_pr"

\* The event is closed without merge, or an action other than opened, edited, closed.
IgnoredEvent(p) ==
    \/ RawAction(p) = "closed" /\ ~RawMerged(p)
    \/ RawAction(p) \notin {"opened", "edited", "closed"}

\* C4 as stated: a closed-unmerged event, and an event with any other action than
\* opened, edited or closed, issues zero mutation calls (no PUT, no POST) and
\* leaves the task's section, completion flag and custom fields unchanged.
C4_IgnoredEventsMutateNothing ==
    \A p \in Procs :
        (Invoked(p) /\ Done(p) /\ IgnoredEvent(p))
        => /\ WritesOf(p) = {}
           /\ fetched[p] # <<>> => task = fetched[p][1]

\* Position i holds the first custom field named "GitHub PR".
FirstGithubField(t, i) ==
    /\ t.custom_fields[i].name = "GitHub PR"
    /\ \A j \in 1..(i - 1) : t.custom_fields[j].name # "GitHub PR"

\* C4 amended: such an event issues no addProject POST and no completed PUT; the
\* only write it can issue is one GitHub-link PUT; the task's memberships and
\* completion flag stay as fetched, and the only custom field that can change is
\* the first "GitHub PR" field, which becomes the PR's URL.
C4_IgnoredEventsMoveNothing ==
    \A p \in Procs :
        (Invoked(p) /\ Done(p) /\ IgnoredEvent(p))
        => /\ Count(p, "POST_ADD") = 0
           /\ Count(p, "PUT_DONE") = 0
           /\ Count(p, "PUT_LINK") <= 1
           /\ fetched[p] # <<>> =>
                LET t == fetched[p][1]
                IN  /\ task.memberships = t.memberships
                    /\ task.completed = t.completed
                    /\ Len(task.custom_fields) = Len(t.custom_fields)
                    /\ \A i \in 1..Len(t.custom_fields) :
                          \/ task.custom_fields[i] = t.custom_fields[i]
                          \/ /\ FirstGithubField(t, i)
                             /\ task.custom_fields[i] =
                                   [t.custom_fields[i] EXCEPT !.text_value = RawUrl(p)]

C4_Witness ==
    /\ Done(1) /\ RawAction(1) = "closed" /\ ~RawMerged(1)
    /\ PassesBoardCheck(1)
    /\ result[1] = Returned
    /\ Kinds(1) = << "GET", "PUT_LINK" >>
    /\ task # fetched[1][1]

\* C5: signature validation fails closed.  A request whose label is not sha1 or
\* whose digest is not the HMAC-SHA1 of the raw body under the secret ends in an
\* error with the body not decoded and no outbound call; a request with label
\* sha1 and the matching digest goes on to decode the body.
C5_SignatureFailsClosed ==
    \A p \in Procs :
        Invoked(p) =>
            IF ValidSignature(p)
            THEN event[p] = << JsonLoads(request[p].body) >>
            ELSE /\ Done(p)
                 /\ result[p].state = "raised"
                 /\ event[p] = <<>>
                 /\ asana_ids[p] = <<>>
                 /\ calls[p] = <<>>

C5_Witness ==
    /\ Done(1)
    /\ request[1].headers =
          << Lit("sha1"), Lit("="), HexDigest(hook_secret_key, Tamper(request[1].body)) >>
    /\ HasAsanaUrl(RawText(1))
    /\ result[1] = Raised(SignatureError, "")
    /\ event[1] = <<>> /\ calls[1] = <<>>

C7_TwoRunsOneWrite ==
    (Len(linkRuns) = 2 /\ linkRuns[1].url = linkRuns[2].url)
    => ~(linkRuns[1].put /\ linkRuns[2].put)

\* The fetched task has a "GitHub PR" field whose text differs from the URL.
LinkDiffers(p) ==
    \E i \in 1..Len(fetched[p][1].custom_fields) :
        /\ FirstGithubField(fetched[p][1], i)
        /\ fetched[p][1].custom_fields[i].text_value # RawUrl(p)

\* C7 amended: when the PUT of the first run was accepted by Asana (or the first
\* run issued none), the second run with the same URL issues no PUT, so the two
\* runs issue at most one; a PUT that Asana answered with a failure status is
\* repeated by the second run.  A run issues the PUT exactly when a field named
\* "GitHub PR" exists and its text differs from the URL; a task without such a
\* field causes no write and no error in the link step.
C7_LinkSyncIdempotentOnceStored ==
    /\ (Len(linkRuns) = 2 /\ linkRuns[1].url = linkRuns[2].url)
       => /\ (linkRuns[1].put => Applied(linkRuns[1].status)) => ~linkRuns[2].put
          /\ (linkRuns[1].put /\ ~Applied(linkRuns[1].status)) => linkRuns[2].put
    /\ \A p \in Procs :
          (fetched[p] # <<>> /\ pc[p] # "link")
          => /\ Count(p, "PUT_LINK") = (IF LinkDiffers(p) THEN 1 ELSE 0)
             /\ \A i \in CallIdx(p) :
                   calls[p][i].kind = "PUT_LINK" => calls[p][i].value = RawUrl(p)
             /\ result[p].state = "raised" => IsPolicyError(p)

C7_Witness ==
    /\ Len(linkRuns) = 2
    /\ linkRuns[1].url = linkRuns[2].url
    /\ linkRuns[1].put /\ Applied(linkRuns[1].status)
    /\ ~linkRuns[2].put
    /\ pc[1] = "confirm"
    /\ Count(1, "PUT_LINK") = 0

\* C8: the read path fails loud and the write path fails quiet.  A GET answered
\* with a status other than 200 ends the invocation with an error and no write;
\* whatever statuses the PUTs and the POST return, an invocation whose task
\* passes the board check returns normally, and in the closed+merged case the
\* completed=true PUT follows the addProject POST even when the POST failed.
C8_ReadLoudWriteQuiet ==
    \A p \in Procs :
        /\ (calls[p] # <<>> /\ calls[p][1].status # 200)
           => /\ Done(p)
              /\ result[p] = Raised(BadStatusError, "")
              /\ Len(calls[p]) = 1
        /\ (Done(p) /\ PassesBoardCheck(p))
           => /\ result[p] = Returned
              /\ (RawAction(p) = "closed" /\ RawMerged(p))
                 => /\ Len(calls[p]) >= 3
                    /\ calls[p][Len(calls[p]) - 1].kind = "POST_ADD"
                    /\ calls[p][Len(calls[p])].kind = "PUT_DONE"
        /\ (Done(p) /\ Fetched200(p) /\ result[p].state = "raised")
           => /\ IsPolicyError(p)
              /\ ~PassesBoardCheck(p)

C8_Witness ==
    /\ Done(1) /\ result[1] = Returned
    /\ \E i \in 1..(Len(calls[1]) - 2) :
          /\ calls[1][i].kind = "PUT_LINK" /\ ~Applied(calls[1][i].status)
          /\ calls[1][i + 1].kind = "POST_ADD" /\ ~Applied(calls[1][i + 1].status)
          /\ calls[1][i + 2].kind = "PUT_DONE" /\ ~Applied(calls[1][i + 2].status)

\* The section of the task in a project, "" when it is not a member.
SectionOf(t, project) ==
    LET hits == { i \in 1..Len(t.memberships) : t.memberships[i].project = project }
    IN  IF hits = {} THEN ""
        ELSE t.memberships[CHOOSE i \in hits : \A j \in hits : i <= j].section

OpenSections == {"not_started", "in_dev", "in_pr"}

\* An invocation that fetched the task in Merged/Done, or in a section other than
\* the three open ones, issues no POST and no completed PUT and ends with the
\* policy error.
C9_ClosedTaskIsRefused ==
    \A p \in Procs :
        ( /\ fetched[p] # <<>>
          /\ SectionOf(fetched[p][1], FirstUrlIds(RawText(p)).project_id)
                \notin (OpenSections \cup {""}) )
        => /\ Count(p, "POST_ADD") = 0
           /\ Count(p, "PUT_DONE") = 0
           /\ pc[p] \in {"link", "confirm"} \/ (Done(p) /\ IsPolicyError(p))

\* A step leaves a section that is not one of the three open ones as it is.
C9_ClosedSectionStays ==
    \A project \in {Project1, Project2} :
        SectionOf(task, project) \notin (OpenSections \cup {""})
        => SectionOf(task', project) = SectionOf(task, project)

\* C9: with invocations processed one after another, a task whose section in the
\* referenced project is Merged/Done, or any section other than Not Started, In
\* Dev, In PR, is never moved: the invocation ends with the policy error without
\* a POST or a completed PUT, and a task in Merged/Done stays there.
C9_NeverMovedOutOfDone ==
    [] C9_ClosedTaskIsRefused /\ [][C9_ClosedSectionStays]_vars

C9_Witness ==
    /\ delivered = 2
    /\ Done(1) /\ IsPolicyError(1)
    /\ RawAction(1) \in {"opened", "edited"}
    /\ task.completed
    /\ SectionOf(task, Project1) = "merged_done"
    /\ FirstUrlIds(RawText(1)).project_id = Project1

\* C10: when two invocations for the same task overlap, a task that has been
\* moved to Merged/Done and marked completed is never afterwards moved to In PR.
C10_NoMoveBackUnderOverlap ==
    [][ (SectionOf(task, Project1) = "merged_done" /\ task.completed)
        => SectionOf(task', Project1) # "in_pr" ]_vars

====
